---- MODULE Spec2Model ----
(***************************************************************************)
(* Model of the two command-line utilities of the repository:              *)
(*   examples/cli-sample/git-stats.py        (repository statistics)       *)
(*   examples/python-sample/data_processor.py (CSV to JSON converter)      *)
(* Text is modelled as sequences of one-character strings.                 *)
(***************************************************************************)
EXTENDS Integers, Sequences, FiniteSets, TLC

VARIABLES
  listing,   \* stdout of a git listing handed to a counting function
  answer,    \* what the counting function returned
  pc,        \* git-stats main: position in the run
  args,      \* git-stats main: the command line
  repo,      \* git-stats main: what the path names
  calls,     \* git-stats main: the external queries invoked so far
  stats,     \* git-stats main: the stats dict under construction
  out,       \* git-stats main: stdout
  err,       \* git-stats main: stderr
  status,    \* git-stats main: how the process ended
  content,   \* text handed to csv.DictReader
  rows,      \* the rows csv.DictReader produced
  fs,        \* converter: the file system
  hist       \* converter: the runs of data_processor.py so far

countVars == <<listing, answer>>
statsVars == <<pc, args, repo, calls, stats, out, err, status>>
parseVars == <<content, rows>>
convVars  == <<fs, hist>>
vars == <<listing, answer, pc, args, repo, calls, stats, out, err, status,
          content, rows, fs, hist>>

----------------------------------------------------------------------------
(* Bounds *)

MaxListing == 4    \* longest git listing enumerated
MaxLen == 4        \* longest CSV text enumerated for the reader
MaxRuns == 2       \* runs of data_processor.py in one behaviour

----------------------------------------------------------------------------
(* Text helpers: Python str methods *)

NL == "\n"
None == [t |-> "none", s |-> <<>>, l |-> <<>>]
Str(s) == [t |-> "str", s |-> s, l |-> <<>>]
List(l) == [t |-> "list", s |-> <<>>, l |-> l]

\* all sequences over alphabet A of length at most n
RECURSIVE SeqsUpTo(_, _)
SeqsUpTo(A, n) ==
  IF n = 0 THEN {<<>>}
  ELSE LET shorter == SeqsUpTo(A, n - 1)
       IN shorter \cup {Append(s, c) : s \in {x \in shorter : Len(x) = n - 1}, c \in A}

IsSpace(c) == c \in {" ", "\n", "\t", "\r"}

RECURSIVE LStrip(_)
LStrip(s) == IF s # <<>> /\ IsSpace(Head(s)) THEN LStrip(Tail(s)) ELSE s

RECURSIVE RStrip(_)
RStrip(s) ==
  IF s # <<>> /\ IsSpace(s[Len(s)]) THEN RStrip(SubSeq(s, 1, Len(s) - 1)) ELSE s

\* str.strip()
Strip(s) == RStrip(LStrip(s))

\* index of the first c in s, 0 when there is none
RECURSIVE IndexFrom(_, _, _)
IndexFrom(s, c, i) ==
  IF i > Len(s) THEN 0 ELSE IF s[i] = c THEN i ELSE IndexFrom(s, c, i + 1)

\* str.split(sep) for a one-character separator: "" gives [""]
RECURSIVE Split(_, _)
Split(s, sep) ==
  LET i == IndexFrom(s, sep, 1)
  IN IF i = 0 THEN <<s>>
     ELSE <<SubSeq(s, 1, i - 1)>> \o Split(SubSeq(s, i + 1, Len(s)), sep)

Range(f) == {f[i] : i \in DOMAIN f}

\* the concatenation of ss[lo..hi], halving the range
RECURSIVE FlattenRange(_, _, _)
FlattenRange(ss, lo, hi) ==
  IF lo > hi THEN <<>>
  ELSE IF lo = hi THEN ss[lo]
  ELSE LET mid == (lo + hi) \div 2
       IN FlattenRange(ss, lo, mid) \o FlattenRange(ss, mid + 1, hi)

Flatten(ss) == FlattenRange(ss, 1, Len(ss))

RECURSIVE SelectNonEmpty(_)
SelectNonEmpty(ls) ==
  IF ls = <<>> THEN <<>>
  ELSE IF Head(ls) # <<>> THEN <<Head(ls)>> \o SelectNonEmpty(Tail(ls))
       ELSE SelectNonEmpty(Tail(ls))

----------------------------------------------------------------------------
(* git-stats.py: the counting functions, as functions of git's stdout *)

\* authors = set(result.stdout.strip().split('\n')); return len(authors)
author_count_of(stdout) == Cardinality(Range(Split(Strip(stdout), NL)))

\* branches = [line.strip() for line in result.stdout.split('\n') if line.strip()]
\* variant: every line counted
branch_count_without_filter(stdout) == Len(Split(stdout, NL))
branch_count_of(stdout) ==
  LET lines == Split(stdout, NL)
  IN Len(SelectNonEmpty([i \in DOMAIN lines |-> Strip(lines[i])]))

ListingAlphabet == {"a", "b", " ", NL}
Listings == SeqsUpTo(ListingAlphabet, MaxListing)

InitCount ==
  /\ listing \in Listings
  /\ answer = [fn |-> "none", n |-> 0]

CallAuthorCount ==
  /\ answer.fn = "none"
  /\ answer' = [fn |-> "get_author_count", n |-> author_count_of(listing)]
  /\ UNCHANGED listing
  /\ UNCHANGED <<statsVars, parseVars, convVars>>

CallBranchCount ==
  /\ answer.fn = "none"
  /\ answer' = [fn |-> "get_branch_count", n |-> branch_count_of(listing)]
  /\ UNCHANGED listing
  /\ UNCHANGED <<statsVars, parseVars, convVars>>

----------------------------------------------------------------------------
(* git-stats.py: the three queries.  git is what subprocess.run produced:  *)
(* present = FALSE when the git binary is missing (subprocess.run raises   *)
(* FileNotFoundError), else the exit code and the captured stdout.         *)

Digits == <<"0", "1", "2", "3", "4", "5", "6", "7", "8", "9">>
IsDigit(c) == \E d \in DOMAIN Digits : Digits[d] = c
DigitVal(c) == (CHOOSE d \in DOMAIN Digits : Digits[d] = c) - 1

RECURSIVE DecimalValue(_)
DecimalValue(s) ==
  IF s = <<>> THEN 0
  ELSE 10 * DecimalValue(SubSeq(s, 1, Len(s) - 1)) + DigitVal(s[Len(s)])

\* int(text) for text made of digits; anything else here raises ValueError
IsDecimal(s) == s # <<>> /\ \A i \in DOMAIN s : IsDigit(s[i])

Returned(v) == [raised |-> "none", value |-> v]
Raised(e) == [raised |-> e, value |-> 0]

get_commit_count(git) ==
  IF ~git.present THEN Raised("FileNotFoundError")
  ELSE IF git.rc # 0 THEN Raised("RuntimeError")
  ELSE IF IsDecimal(Strip(git.stdout)) THEN Returned(DecimalValue(Strip(git.stdout)))
  ELSE Raised("ValueError")

get_author_count(git) ==
  IF ~git.present THEN Raised("FileNotFoundError")
  ELSE IF git.rc # 0 THEN Raised("RuntimeError")
  ELSE Returned(author_count_of(git.stdout))

get_branch_count(git) ==
  IF ~git.present THEN Raised("FileNotFoundError")
  ELSE IF git.rc # 0 THEN Raised("RuntimeError")
  ELSE Returned(branch_count_of(git.stdout))

CommitOutputs == {<<"5", NL>>, <<>>}
AuthorOutputs == {<<>>, <<"a", NL, "b", NL, "a", NL>>}
BranchOutputs == {<<>>, <<"*", " ", "a", NL, " ", " ", "b", NL>>}

GitRuns(outputs) ==
  {[present |-> FALSE, rc |-> 0, stdout |-> <<>>]}
    \cup [present : {TRUE}, rc : {0, 128}, stdout : outputs]

----------------------------------------------------------------------------
(* git-stats.py: main *)

Running == [kind |-> "running", code |-> 0, intr |-> "none"]

\* a --format value outside the choices, and the choices
OtherFormat == "csv"
Formats == {"text", "json"}

\* stdout takes everything, or is a full device on which the flush fails
StdoutStates == {"ok", "flush_error"}

\* The interpreter flushes the buffered stdout when it exits; when that flush
\* fails it replaces the exit code by 120.
ExitWith(code, written) ==
  [kind |-> "exit",
   code |-> IF written # <<>> /\ repo.stdout = "flush_error" THEN 120 ELSE code,
   intr |-> status.intr]

InitStats ==
  /\ pc = "parse_args"
  /\ args \in [format : {OtherFormat} \cup Formats, verbose : BOOLEAN, help : BOOLEAN]
  /\ repo \in [exists : BOOLEAN, marker : BOOLEAN, stdout : StdoutStates]
  /\ repo.marker => repo.exists
  /\ args.help => args.format \in Formats
  /\ calls = <<>>
  /\ stats = [built |-> FALSE, commits |-> 0, authors |-> 0, branches |-> 0]
  /\ out = <<>>
  /\ err = <<>>
  /\ status = Running

\* args = parser.parse_args(): -h prints the help and exits 0, a format outside
\* the choices prints the usage and exits 2
ParseArgs ==
  /\ pc = "parse_args"
  /\ IF args.help
     THEN /\ out' = Append(out, [text |-> "usage and help"])
          /\ status' = ExitWith(0, out')
          /\ pc' = "done"
          /\ UNCHANGED err
     ELSE IF args.format \notin Formats
     THEN /\ err' = Append(err, "usage")
          /\ status' = ExitWith(2, out)
          /\ pc' = "done"
          /\ UNCHANGED out
     ELSE /\ pc' = "validate"
          /\ UNCHANGED <<out, err, status>>
  /\ UNCHANGED <<args, repo, calls, stats>>
  /\ UNCHANGED <<countVars, parseVars, convVars>>

\* variant: only the existence of the path is checked
ValidatePath_without_marker_check ==
  /\ pc = "validate"
  /\ IF ~repo.exists
     THEN /\ err' = Append(err, "Error: Path does not exist")
          /\ status' = ExitWith(1, out)
          /\ pc' = "done"
     ELSE /\ pc' = "try"
          /\ UNCHANGED <<err, status>>
  /\ UNCHANGED <<args, repo, calls, stats, out>>
  /\ UNCHANGED <<countVars, parseVars, convVars>>

\* the two path checks before the try block
ValidatePath ==
  /\ pc = "validate"
  /\ IF ~repo.exists
     THEN /\ err' = Append(err, "Error: Path does not exist")
          /\ status' = ExitWith(1, out)
          /\ pc' = "done"
     ELSE IF ~repo.marker
     THEN /\ err' = Append(err, "Error: is not a git repository")
          /\ status' = ExitWith(1, out)
          /\ pc' = "done"
     ELSE /\ pc' = "try"
          /\ UNCHANGED <<err, status>>
  /\ UNCHANGED <<args, repo, calls, stats, out>>
  /\ UNCHANGED <<countVars, parseVars, convVars>>

EnterTry ==
  /\ pc = "try"
  /\ err' = IF args.verbose THEN Append(err, "Analyzing repository") ELSE err
  /\ pc' = "commits"
  /\ UNCHANGED <<args, repo, calls, stats, out, status>>
  /\ UNCHANGED <<countVars, parseVars, convVars>>

\* variant: a failed query does not leave the try block
AfterQuery_swallowing(r, next) == next
AfterQuery(r, next) ==
  IF r.raised = "none" THEN next
  ELSE IF r.raised = "RuntimeError" THEN "except_RuntimeError"
  ELSE "except_Exception"

QueryCommits ==
  /\ pc = "commits"
  /\ \E git \in GitRuns(CommitOutputs) :
       LET r == get_commit_count(git)
       IN /\ calls' = Append(calls, [q |-> "commits", git |-> git, r |-> r])
          /\ pc' = AfterQuery(r, "authors")
  /\ UNCHANGED <<args, repo, stats, out, err, status>>
  /\ UNCHANGED <<countVars, parseVars, convVars>>

QueryAuthors ==
  /\ pc = "authors"
  /\ \E git \in GitRuns(AuthorOutputs) :
       LET r == get_author_count(git)
       IN /\ calls' = Append(calls, [q |-> "authors", git |-> git, r |-> r])
          /\ pc' = AfterQuery(r, "branches")
  /\ UNCHANGED <<args, repo, stats, out, err, status>>
  /\ UNCHANGED <<countVars, parseVars, convVars>>

\* the third query; when it returns the stats dict is built
QueryBranches ==
  /\ pc = "branches"
  /\ \E git \in GitRuns(BranchOutputs) :
       LET r == get_branch_count(git)
       IN /\ calls' = Append(calls, [q |-> "branches", git |-> git, r |-> r])
          /\ pc' = AfterQuery(r, "display")
          /\ stats' = IF r.raised = "none"
                      THEN [built |-> TRUE,
                            commits |-> calls[1].r.value,
                            authors |-> calls[2].r.value,
                            branches |-> r.value]
                      ELSE stats
  /\ UNCHANGED <<args, repo, out, err, status>>
  /\ UNCHANGED <<countVars, parseVars, convVars>>

display_stats(st, output_format) ==
  IF output_format = "json"
  THEN <<[json |-> <<<<"commits", st.commits>>, <<"authors", st.authors>>,
                     <<"branches", st.branches>>>>]>>
  ELSE <<[text |-> "Git Repository Statistics"],
         [text |-> "========================================"],
         [text |-> "Commits:  ", n |-> st.commits],
         [text |-> "Authors:  ", n |-> st.authors],
         [text |-> "Branches: ", n |-> st.branches]>>

\* display_stats(stats, args.format), then main returns and the process exits 0
DisplayStats ==
  /\ pc = "display"
  /\ out' = out \o display_stats(stats, args.format)
  /\ status' = ExitWith(0, out')
  /\ pc' = "done"
  /\ UNCHANGED <<args, repo, calls, stats, err>>
  /\ UNCHANGED <<countVars, parseVars, convVars>>

ExceptRuntimeError ==
  /\ pc = "except_RuntimeError"
  /\ err' = Append(err, "Error: RuntimeError")
  /\ status' = ExitWith(1, out)
  /\ pc' = "done"
  /\ UNCHANGED <<args, repo, calls, stats, out>>
  /\ UNCHANGED <<countVars, parseVars, convVars>>

ExceptKeyboardInterrupt ==
  /\ pc = "except_KeyboardInterrupt"
  /\ err' = Append(err, "Interrupted")
  /\ status' = ExitWith(130, out)
  /\ pc' = "done"
  /\ UNCHANGED <<args, repo, calls, stats, out>>
  /\ UNCHANGED <<countVars, parseVars, convVars>>

ExceptException ==
  /\ pc = "except_Exception"
  /\ err' = Append(err, "Unexpected error") \o
              (IF args.verbose THEN <<"traceback">> ELSE <<>>)
  /\ status' = ExitWith(1, out)
  /\ pc' = "done"
  /\ UNCHANGED <<args, repo, calls, stats, out>>
  /\ UNCHANGED <<countVars, parseVars, convVars>>

InTry == {"try", "commits", "authors", "branches", "display"}

\* KeyboardInterrupt raised at the current position: inside the try block the
\* except clause takes it; anywhere else (before the try block, inside an
\* except clause) it is uncaught, the traceback goes to stderr and the
\* interpreter kills itself with SIGINT.  intr is where the latest one arrived.
Interrupt ==
  /\ pc # "done"
  /\ IF pc \in InTry
     THEN /\ pc' = "except_KeyboardInterrupt"
          /\ status' = [status EXCEPT !.intr = pc]
          /\ UNCHANGED err
     ELSE /\ pc' = "done"
          /\ err' = Append(err, "traceback")
          /\ status' = [kind |-> "signal", code |-> 2, intr |-> pc]
  /\ UNCHANGED <<args, repo, calls, stats, out>>
  /\ UNCHANGED <<countVars, parseVars, convVars>>

NextStats ==
  \/ ParseArgs
  \/ ValidatePath
  \/ EnterTry
  \/ QueryCommits
  \/ QueryAuthors
  \/ QueryBranches
  \/ DisplayStats
  \/ ExceptRuntimeError
  \/ ExceptKeyboardInterrupt
  \/ ExceptException
  \/ Interrupt

----------------------------------------------------------------------------
(* data_processor.py: csv.DictReader(f) over a file opened in text mode.   *)
(* A row is a dict kept as the sequence of its (key, value) items in       *)
(* insertion order; keys and values are None, Str(text) or List(texts).    *)

\* open('r') translates "\r\n" and "\r" to "\n"
UniversalNewlines(t) ==
  Flatten([i \in DOMAIN t |->
             IF t[i] = "\r" THEN <<NL>>
             ELSE IF t[i] = NL /\ i > 1 /\ t[i - 1] = "\r" THEN <<>>
             ELSE <<t[i]>>])

\* the reader of the excel dialect: delimiter ",", quotechar '"', doublequote,
\* not strict
ReaderStart ==
  [state |-> "START_RECORD", field |-> <<>>, fields |-> <<>>,
   records |-> <<>>, midline |-> FALSE]

SaveField(p) == [p EXCEPT !.fields = Append(@, p.field), !.field = <<>>]
AddChar(p, c, next) == [p EXCEPT !.field = Append(@, c), !.state = next]
EmitRecord(p) ==
  [p EXCEPT !.records = Append(@, p.fields), !.fields = <<>>, !.field = <<>>,
            !.state = "START_RECORD"]

\* the end of a line
EndOfLine(p) ==
  LET q == [p EXCEPT !.midline = FALSE]
  IN CASE p.state = "START_RECORD" -> EmitRecord(q)
       [] p.state = "IN_QUOTED_FIELD" -> q
       [] OTHER -> EmitRecord(SaveField(q))

ProcessChar(p0, c) ==
  LET p == [p0 EXCEPT !.midline = TRUE]
  IN CASE p.state \in {"START_RECORD", "START_FIELD"} ->
            IF c = "\"" THEN [p EXCEPT !.state = "IN_QUOTED_FIELD"]
            ELSE IF c = "," THEN [SaveField(p) EXCEPT !.state = "START_FIELD"]
            ELSE AddChar(p, c, "IN_FIELD")
       [] p.state = "IN_FIELD" ->
            IF c = "," THEN [SaveField(p) EXCEPT !.state = "START_FIELD"]
            ELSE AddChar(p, c, "IN_FIELD")
       [] p.state = "IN_QUOTED_FIELD" ->
            IF c = "\"" THEN [p EXCEPT !.state = "QUOTE_IN_QUOTED_FIELD"]
            ELSE AddChar(p, c, "IN_QUOTED_FIELD")
       [] OTHER -> \* QUOTE_IN_QUOTED_FIELD
            IF c = "\"" THEN AddChar(p, c, "IN_QUOTED_FIELD")
            ELSE IF c = "," THEN [SaveField(p) EXCEPT !.state = "START_FIELD"]
            ELSE AddChar(p, c, "IN_FIELD")

\* one character of the text; a newline also ends the line
ReaderStep(p, c) ==
  IF c = NL
  THEN IF p.state = "IN_QUOTED_FIELD"
       THEN EndOfLine(AddChar(p, NL, "IN_QUOTED_FIELD"))
       ELSE EndOfLine(p)
  ELSE ProcessChar(p, c)

\* the reader after t[lo..hi], halving the range
RECURSIVE ReadRange(_, _, _, _)
ReadRange(t, lo, hi, p) ==
  IF lo > hi THEN p
  ELSE IF lo = hi THEN ReaderStep(p, t[lo])
  ELSE LET mid == (lo + hi) \div 2
           left == ReadRange(t, lo, mid, p)
       IN \* the test makes TLC evaluate the left half before the right one
          IF left.midline \in BOOLEAN THEN ReadRange(t, mid + 1, hi, left) ELSE left

\* the end of the file: a last line without newline ends, and a quoted field
\* left open is closed
EndOfFile(p) ==
  LET q == IF p.midline THEN EndOfLine(p) ELSE p
  IN IF q.state = "IN_QUOTED_FIELD" THEN EmitRecord(SaveField(q)).records
     ELSE q.records

\* csv.reader(f): the records of the text, each a sequence of fields
csv_reader(t) == EndOfFile(ReadRange(t, 1, Len(t), ReaderStart))

HasKey(d, k) == \E i \in DOMAIN d : d[i].k = k

\* d[k] = v
DictSet(d, k, v) ==
  IF HasKey(d, k)
  THEN [i \in DOMAIN d |-> IF d[i].k = k THEN [k |-> k, v |-> v] ELSE d[i]]
  ELSE Append(d, [k |-> k, v |-> v])

RECURSIVE DictOfPairs(_, _, _, _)
DictOfPairs(ks, vs, i, d) ==
  IF i > Len(ks) \/ i > Len(vs) THEN d
  ELSE DictOfPairs(ks, vs, i + 1, DictSet(d, Str(ks[i]), Str(vs[i])))

RECURSIVE RestVals(_, _, _)
RestVals(ks, i, d) ==
  IF i > Len(ks) THEN d ELSE RestVals(ks, i + 1, DictSet(d, Str(ks[i]), None))

\* DictReader.__next__ for one record: dict(zip(fieldnames, row)), the surplus
\* fields under restkey None, the missing ones set to restval None
DictReaderRow(fieldnames, row) ==
  LET d == DictOfPairs(fieldnames, row, 1, <<>>)
  IN IF Len(fieldnames) < Len(row)
     THEN DictSet(d, None, List(SubSeq(row, Len(fieldnames) + 1, Len(row))))
     ELSE IF Len(fieldnames) > Len(row)
     THEN RestVals(fieldnames, Len(row) + 1, d)
     ELSE d

NotBlank(rec) == rec # <<>>

\* variant: blank lines kept as rows
DictReader_keeping_blank_rows(t) ==
  LET recs == csv_reader(UniversalNewlines(t))
  IN IF recs = <<>> THEN <<>>
     ELSE [i \in 1..(Len(recs) - 1) |-> DictReaderRow(recs[1], recs[i + 1])]

\* data = [row for row in csv.DictReader(f)]: the first record is the header,
\* records that are [] (blank lines) are skipped
DictReader(t) ==
  LET recs == csv_reader(UniversalNewlines(t))
  IN IF recs = <<>> THEN <<>>
     ELSE LET kept == SelectSeq(Tail(recs), NotBlank)
          IN [i \in DOMAIN kept |-> DictReaderRow(recs[1], kept[i])]

----------------------------------------------------------------------------
(* data_processor.py: json.dump(result, f, indent=2) *)

Spaces(n) == [i \in 1..n |-> " "]

RECURSIVE IntToText(_)
IntToText(n) ==
  IF n < 10 THEN <<Digits[n + 1]>>
  ELSE IntToText(n \div 10) \o <<Digits[(n % 10) + 1]>>

JsonEscape(c) ==
  CASE c = "\"" -> <<"\\", "\"">>
    [] c = "\\" -> <<"\\", "\\">>
    [] c = NL -> <<"\\", "n">>
    [] c = "\r" -> <<"\\", "r">>
    [] c = "\t" -> <<"\\", "t">>
    [] OTHER -> <<c>>

JsonString(s) == <<"\"">> \o Flatten([i \in DOMAIN s |-> JsonEscape(s[i])]) \o <<"\"">>

\* items joined by ",\n", each at the given indentation, between the brackets
JsonBlock(open, items, close, indent) ==
  IF items = <<>> THEN <<open, close>>
  ELSE <<open, NL>>
       \o Flatten([i \in DOMAIN items |->
                     Spaces(indent + 2) \o items[i]
                       \o (IF i < Len(items) THEN <<",", NL>> ELSE <<NL>>)])
       \o Spaces(indent) \o <<close>>

JsonValue(v, indent) ==
  CASE v.t = "none" -> <<"n", "u", "l", "l">>
    [] v.t = "str" -> JsonString(v.s)
    [] OTHER -> JsonBlock("[", [i \in DOMAIN v.l |-> JsonString(v.l[i])], "]", indent)

\* a key that is None is written as "null"
JsonKey(k) == IF k.t = "none" THEN JsonString(<<"n", "u", "l", "l">>) ELSE JsonString(k.s)

JsonRow(d, indent) ==
  JsonBlock("{", [i \in DOMAIN d |->
                    JsonKey(d[i].k) \o <<":", " ">> \o JsonValue(d[i].v, indent + 2)],
            "}", indent)

Text(str) ==
  CASE str = "data" -> <<"d", "a", "t", "a">>
    [] str = "count" -> <<"c", "o", "u", "n", "t">>
    [] str = "source" -> <<"s", "o", "u", "r", "c", "e">>
    [] str = "a.csv" -> <<"a", ".", "c", "s", "v">>
    [] str = "b.txt" -> <<"b", ".", "t", "x", "t">>
    [] str = "c.txt" -> <<"c", ".", "t", "x", "t">>

json_dump(result) ==
  JsonBlock("{",
    << JsonString(Text("data")) \o <<":", " ">>
         \o JsonBlock("[", [i \in DOMAIN result.data |-> JsonRow(result.data[i], 4)],
                      "]", 2),
       JsonString(Text("count")) \o <<":", " ">> \o IntToText(result.count),
       JsonString(Text("source")) \o <<":", " ">> \o JsonString(Text(result.source)) >>,
    "}", 0)

----------------------------------------------------------------------------
(* data_processor.py: process_csv and the __main__ block, over a file      *)
(* system of four paths below the working directory.  "c.txt" names        *)
(* nothing; "d/.." is the working directory when d is a directory.         *)

Absent == [kind |-> "absent", data |-> <<>>]
Dir == [kind |-> "dir", data |-> <<>>]
File(text) == [kind |-> "file", data |-> text]

Files == {"a.csv", "b.txt", "d", "d/o.json"}
NoArg == ""
InputArgs == {"a.csv", "b.txt", "c.txt"}
OutputArgs == {"a.csv", "d/o.json", "d/.."}

\* what a path names: Path.exists(), open()
Node(f, path) ==
  IF path \in Files THEN f[path]
  ELSE IF path = "d/.." /\ f["d"].kind = "dir" THEN Dir
  ELSE Absent

\* Path.suffix and Path.parent are lexical
Suffix(path) ==
  CASE path = "a.csv" -> ".csv"
    [] path \in {"b.txt", "c.txt"} -> ".txt"
    [] path = "d/o.json" -> ".json"
    [] OTHER -> ""

Parent(path) == IF path \in {"d/o.json", "d/.."} THEN "d" ELSE "."

\* the two checks on input_path
\* variant: the suffix tested before the existence
CheckInput_suffix_first(f, input_file) ==
  IF Suffix(input_file) # ".csv" THEN "ValueError"
  ELSE IF Node(f, input_file).kind = "absent" THEN "FileNotFoundError"
  ELSE "none"
CheckInput(f, input_file) ==
  IF Node(f, input_file).kind = "absent" THEN "FileNotFoundError"
  ELSE IF Suffix(input_file) # ".csv" THEN "ValueError"
  ELSE "none"

\* the rows and the result dict
\* variant: count taken from the reader's records, header included
build_result_counting_header(text, input_file) ==
  LET data == DictReader(text)
  IN [data |-> data, count |-> Len(csv_reader(UniversalNewlines(text))),
      source |-> input_file]
build_result(text, input_file) ==
  LET data == DictReader(text)
  IN [data |-> data, count |-> Len(data), source |-> input_file]

NoResult == [data |-> <<>>, count |-> 0, source |-> ""]

\* output_path.parent.mkdir(parents=True, exist_ok=True)
MkdirParents(f, dir) ==
  IF dir = "." \/ f[dir].kind = "dir" THEN [fs |-> f, raised |-> "none"]
  ELSE IF f[dir].kind = "absent" THEN [fs |-> [f EXCEPT ![dir] = Dir], raised |-> "none"]
  ELSE [fs |-> f, raised |-> "FileExistsError"]

\* what reaches the file: the document, or, when the disk fills up, nothing
\* of it (the failure comes with the flush on close) or its first half
DiskStates == {"ok", "full_at_flush", "full_mid_write"}
Written(doc, disk) ==
  CASE disk = "ok" -> doc
    [] disk = "full_at_flush" -> <<>>
    [] OTHER -> SubSeq(doc, 1, Len(doc) \div 2)

\* with output_path.open('w') as f: json.dump(result, f, indent=2)
\* variant: the file is opened for appending
OpenAndDump_appending(f, output_file, doc, written) ==
  IF Node(f, output_file).kind = "dir" THEN [fs |-> f, raised |-> "IsADirectoryError"]
  ELSE [fs |-> [f EXCEPT ![output_file] = File(f[output_file].data \o written)],
        raised |-> IF written = doc THEN "none" ELSE "OSError"]
OpenAndDump(f, output_file, doc, written) ==
  IF Node(f, output_file).kind = "dir" THEN [fs |-> f, raised |-> "IsADirectoryError"]
  ELSE [fs |-> [f EXCEPT ![output_file] = File(written)],
        raised |-> IF written = doc THEN "none" ELSE "OSError"]

Call(f, raised, result, log, opened) ==
  [fs |-> f, raised |-> raised, result |-> result, log |-> log, opened |-> opened]

process_csv(f, input_file, output_file, disk) ==
  LET checked == CheckInput(f, input_file)
      started == <<"INFO Processing">>
      result == build_result(Node(f, input_file).data, input_file)
      doc == json_dump(result)
      made == MkdirParents(f, Parent(output_file))
      dumped == OpenAndDump(made.fs, output_file, doc, Written(doc, disk))
  IN IF checked # "none" THEN Call(f, checked, NoResult, <<>>, <<>>)
     ELSE IF Node(f, input_file).kind = "dir"
     THEN Call(f, "IsADirectoryError", NoResult, started, <<>>)
     ELSE IF output_file = NoArg
     THEN Call(f, "none", result, started, <<input_file>>)
     ELSE IF made.raised # "none"
     THEN Call(made.fs, made.raised, NoResult, started, <<input_file>>)
     ELSE IF dumped.raised = "IsADirectoryError"
     THEN Call(dumped.fs, dumped.raised, NoResult, started, <<input_file>>)
     ELSE IF dumped.raised # "none"
     THEN Call(dumped.fs, dumped.raised, NoResult, started, <<input_file, output_file>>)
     ELSE Call(dumped.fs, "none", result, Append(started, "INFO Saved output"),
               <<input_file, output_file>>)

\* the exit status of the __main__ block
\* variant: the failure is not reflected in the exit status
ExitStatus_always_zero(raised) == 0
ExitStatus(raised) == IF raised = "none" THEN 0 ELSE 1

ConvTexts ==
  { <<>>,
    <<"a", ",", "b", NL, "1", ",", "2", NL, "3", ",", "4">>,
    <<"a", NL, NL, "1", NL>>,
    <<"a", ",", "b", NL, "1", NL, "1", ",", "2", ",", "3", NL>> }

OldDoc == <<"o", "l", "d">>

InitConv ==
  /\ hist = <<>>
  /\ fs \in [Files -> {Absent, Dir, File(OldDoc)} \cup {File(t) : t \in ConvTexts}]
  /\ fs["a.csv"] \in {Absent, Dir} \cup {File(t) : t \in ConvTexts}
  /\ fs["b.txt"] = File(OldDoc)
  /\ fs["d"] \in {Absent, Dir, File(OldDoc)}
  /\ fs["d/o.json"] \in {Absent, File(OldDoc)}
  /\ fs["d/o.json"] # Absent => fs["d"] = Dir

\* python data_processor.py without arguments: the usage line, exit code 2
RunWithoutArguments ==
  /\ Len(hist) < MaxRuns
  /\ hist' = Append(hist, [input |-> NoArg, output |-> NoArg, before |-> fs,
                           raised |-> "none", code |-> 2, result |-> NoResult,
                           log |-> <<>>, opened |-> <<>>,
                           printed |-> <<"Usage">>])
  /\ UNCHANGED fs
  /\ UNCHANGED <<countVars, statsVars, parseVars>>

\* python data_processor.py input_file [output_file]
RunMain ==
  /\ Len(hist) < MaxRuns
  /\ \E disk \in DiskStates, input_file \in InputArgs,
        output_file \in OutputArgs \cup {NoArg} :
       LET r == process_csv(fs, input_file, output_file, disk)
       IN /\ fs' = r.fs
          /\ hist' = Append(hist,
               [input |-> input_file, output |-> output_file, before |-> fs,
                raised |-> r.raised, code |-> ExitStatus(r.raised),
                result |-> r.result,
                log |-> IF r.raised = "none" THEN r.log
                        ELSE Append(r.log, "ERROR Processing failed"),
                opened |-> r.opened,
                printed |-> IF r.raised = "none"
                            THEN <<"Processed", r.result.count, "records">>
                            ELSE <<>>])
  /\ UNCHANGED <<countVars, statsVars, parseVars>>

NextConv ==
  \/ RunWithoutArguments
  \/ RunMain

----------------------------------------------------------------------------
(* The reader on its own: lines 39 to 49 of process_csv on a given text *)

CsvAlphabet == {"a", "b", ",", NL, "\""}
CsvTexts == SeqsUpTo(CsvAlphabet, MaxLen) \cup ConvTexts

InitParse ==
  /\ content \in CsvTexts
  /\ rows = [read |-> FALSE, data |-> <<>>, count |-> 0]

ReadRows ==
  /\ ~rows.read
  /\ LET result == build_result(content, "a.csv")
     IN rows' = [read |-> TRUE, data |-> result.data, count |-> result.count]
  /\ UNCHANGED content
  /\ UNCHANGED <<countVars, statsVars, convVars>>

----------------------------------------------------------------------------
(* Specifications: each program is checked on its own, the variables of    *)
(* the others stay at rest.                                                *)

IdleCount == listing = <<>> /\ answer = [fn |-> "none", n |-> 0]
IdleStats ==
  /\ pc = "done" /\ args = <<>> /\ repo = <<>> /\ calls = <<>> /\ stats = <<>>
  /\ out = <<>> /\ err = <<>> /\ status = <<>>
IdleParse == content = <<>> /\ rows = <<>>
IdleConv == fs = <<>> /\ hist = <<>>

NextCount ==
  \/ CallAuthorCount
  \/ CallBranchCount
StartCount == InitCount /\ IdleStats /\ IdleParse /\ IdleConv
SpecCount == StartCount /\ [][NextCount]_vars

StartParse == InitParse /\ IdleCount /\ IdleStats /\ IdleConv
SpecParse == StartParse /\ [][ReadRows]_vars

StartConv == InitConv /\ IdleCount /\ IdleStats /\ IdleParse
SpecConv == StartConv /\ [][NextConv]_vars

StartStats == InitStats /\ IdleCount /\ IdleParse /\ IdleConv
SpecStats == StartStats /\ [][NextStats]_vars

----------------------------------------------------------------------------
(* Claims about the counting functions (SpecCount) *)

\* the maximal newline-free, non-empty segments of a text
NonEmptyLinesOf(s) ==
  {SubSeq(s, i, j) : i \in 1..Len(s), j \in 1..Len(s)} \cap
  {SubSeq(s, p[1], p[2]) :
     p \in {q \in (1..Len(s)) \X (1..Len(s)) :
              /\ q[1] <= q[2]
              /\ \A k \in q[1]..q[2] : s[k] # NL
              /\ (q[1] = 1 \/ s[q[1] - 1] = NL)
              /\ (q[2] = Len(s) \/ s[q[2] + 1] = NL)}}

\* the number of lines holding a character that is not white space, counted
\* by the first such character of each line
NonBlankLineCount(s) ==
  Cardinality({i \in 1..Len(s) :
                 /\ ~IsSpace(s[i])
                 /\ \A j \in 1..(i - 1) :
                      (\A k \in j..(i - 1) : s[k] # NL) => IsSpace(s[j])})

\* C7: get_author_count returns the number of distinct non-empty lines of the
\* email listing, 0 for an empty listing.
C7_AuthorCountIsDistinctEmails ==
  answer.fn = "get_author_count" =>
    answer.n = Cardinality(NonEmptyLinesOf(listing))

\* C8: get_branch_count returns the number of non-blank lines of the listing
\* (>= 0; empty, white-space-only and trailing empty lines are not counted),
\* and 0 for an empty listing.
C8_BranchCountIsNonBlankLines ==
  answer.fn = "get_branch_count" =>
    /\ answer.n >= 0
    /\ answer.n = NonBlankLineCount(listing)
    /\ (listing = <<>> => answer.n = 0)

C8_Witness ==
  /\ answer.fn = "get_branch_count"
  /\ listing = <<"a", NL, " ", NL>>
  /\ answer.n = 1

----------------------------------------------------------------------------
(* Claims about git-stats main (SpecStats) *)

QueryOrder == <<"commits", "authors", "branches">>
ExternalFailure(c) == c.git.present /\ c.git.rc # 0
ExitedWith(code) == status.kind = "exit" /\ status.code = code
AllThreeSucceeded ==
  Len(calls) = 3 /\ \A i \in DOMAIN calls : calls[i].r.raised = "none"
Rendered == stats.built /\ out = display_stats(stats, args.format)

\* C6: the queries run at most once each, in the order commits, authors,
\* branches; after the first query that exits non-zero no further query is
\* invoked, nothing is written to stdout, and the run ends with an error on
\* stderr and a status other than exit code 0.
C6_FirstFailureIsFatal ==
  /\ Len(calls) <= 3
  /\ \A i \in DOMAIN calls : calls[i].q = QueryOrder[i]
  /\ \A i \in DOMAIN calls :
       ExternalFailure(calls[i]) =>
         /\ i = Len(calls)
         /\ out = <<>>
         /\ ~stats.built
         /\ pc = "done" =>
              /\ ~ExitedWith(0)
              /\ \/ "Error: RuntimeError" \in Range(err)
                 \/ status.intr # "none" /\ "traceback" \in Range(err)
  /\ out # <<>> /\ args.help = FALSE => AllThreeSucceeded

C6_Witness ==
  /\ pc = "done"
  /\ Len(calls) = 2
  /\ calls[1].r.raised = "none"
  /\ ExternalFailure(calls[2])
  /\ ExitedWith(1)
  /\ err = <<"Error: RuntimeError">>

\* death by SIGINT is what a shell reports as 130
KilledBySigint == status.kind = "signal" /\ status.code = 2

ArgsAccepted == ~args.help /\ args.format \in Formats

----------------------------------------------------------------------------
(* Claims about the reader (SpecParse) *)

\* the lines of a text, a final newline ending the last line
LinesOf(t) ==
  IF t = <<>> THEN <<>>
  ELSE IF t[Len(t)] = NL THEN Split(SubSeq(t, 1, Len(t) - 1), NL)
  ELSE Split(t, NL)

FieldsOf(line) == Split(line, ",")
HeaderOf(t) == FieldsOf(LinesOf(t)[1])
DataLinesOf(t) == Tail(LinesOf(t))

DistinctColumns(header) ==
  \A i, j \in DOMAIN header : header[i] = header[j] => i = j
Unquoted(t) == \A i \in DOMAIN t : t[i] # "\""

\* a header line naming pairwise distinct columns, followed by data lines with
\* as many comma-separated fields as the header, in a text without quotes
WellFormed(t) ==
  /\ LinesOf(t) # <<>>
  /\ LinesOf(t)[1] # <<>>
  /\ DistinctColumns(HeaderOf(t))
  /\ Unquoted(t)
  /\ \A i \in DOMAIN DataLinesOf(t) :
       Len(FieldsOf(DataLinesOf(t)[i])) = Len(HeaderOf(t))

DictGet(d, k) == d[CHOOSE i \in DOMAIN d : d[i].k = k].v

\* row maps each column of header, in header order, to the line's field
RowIs(row, header, line) ==
  /\ Len(row) = Len(header)
  /\ \A j \in DOMAIN header :
       /\ row[j].k = Str(header[j])
       /\ DictGet(row, Str(header[j])) = Str(FieldsOf(line)[j])

\* C9 as stated, on quote-free texts with distinct column names: a well-formed
\* input of n data lines gives exactly n rows, row i mapping each header
\* column to the field of data line i, and count = n.
C9_Original ==
  rows.read /\ WellFormed(content) =>
    /\ rows.count = Len(DataLinesOf(content))
    /\ Len(rows.data) = Len(DataLinesOf(content))
    /\ \A i \in DOMAIN DataLinesOf(content) :
         RowIs(rows.data[i], HeaderOf(content), DataLinesOf(content)[i])

NonBlankLine(line) == line # <<>>
NonBlankDataLinesOf(t) == SelectSeq(DataLinesOf(t), NonBlankLine)

\* a non-blank header of pairwise distinct columns; every non-blank data line
\* has as many fields as the header; no quote character anywhere
WellFormedUnquoted(t) ==
  /\ LinesOf(t) # <<>>
  /\ LinesOf(t)[1] # <<>>
  /\ DistinctColumns(HeaderOf(t))
  /\ Unquoted(t)
  /\ \A i \in DOMAIN NonBlankDataLinesOf(t) :
       Len(FieldsOf(NonBlankDataLinesOf(t)[i])) = Len(HeaderOf(t))

\* C9 amended: for an input without quote characters whose non-blank header
\* has pairwise distinct columns and whose non-blank data lines each have as
\* many fields as the header, the rows are exactly the non-blank data lines
\* in file order (blank lines are skipped), row i mapping each header column
\* to the field of the i-th of them, and count is their number.
C9_RowsAreDataLines ==
  rows.read /\ WellFormedUnquoted(content) =>
    /\ rows.count = Len(NonBlankDataLinesOf(content))
    /\ Len(rows.data) = Len(NonBlankDataLinesOf(content))
    /\ \A i \in DOMAIN NonBlankDataLinesOf(content) :
         RowIs(rows.data[i], HeaderOf(content), NonBlankDataLinesOf(content)[i])

C9_Witness ==
  /\ rows.read
  /\ content = <<"a", ",", "b", NL, "1", ",", "2", NL, "3", ",", "4">>
  /\ WellFormedUnquoted(content)
  /\ rows.count = 2
  /\ rows.data = << <<[k |-> Str(<<"a">>), v |-> Str(<<"1">>)],
                      [k |-> Str(<<"b">>), v |-> Str(<<"2">>)]>>,
                    <<[k |-> Str(<<"a">>), v |-> Str(<<"3">>)],
                      [k |-> Str(<<"b">>), v |-> Str(<<"4">>)]>> >>

----------------------------------------------------------------------------
(* Claims about the converter (SpecConv) *)

Ran == hist # <<>> /\ hist[Len(hist)].input # NoArg
Last == hist[Len(hist)]
Prev == hist[Len(hist) - 1]
Failed(run) == run.raised # "none"
Succeeded(run) == run.input # NoArg /\ run.raised = "none"

\* C1: when the call raises, the file system is as it was before the call:
\* no file created, truncated or partly written, no directory created.
C1_NothingWrittenOnError ==
  Ran /\ Failed(Last) => fs = Last.before

\* two runs in succession with the same input and output paths, both of
\* which returned
RanTwice ==
  /\ Len(hist) >= 2
  /\ Succeeded(Prev) /\ Succeeded(Last)
  /\ Last.input = Prev.input /\ Last.output = Prev.output
  /\ Last.output # NoArg

\* C2 as stated: after the second of two such runs the output document is
\* the one the first run left, also when the output path is the input path.
C2_Original ==
  RanTwice => Node(fs, Last.output) = Node(Last.before, Last.output)

\* C2 amended: for an output path that names another file than the input
\* path, after the second of two successive runs with the same arguments
\* that both returned, the output document is the one the first run left.
C2_IdempotentOutput ==
  RanTwice /\ Last.output # Last.input =>
    Node(fs, Last.output) = Node(Last.before, Last.output)

C2_Witness ==
  /\ RanTwice
  /\ Last.input = "a.csv" /\ Last.output = "d/o.json"
  /\ Prev.before["d"] = Absent
  /\ Last.result.count = 2
  /\ fs["d/o.json"] = File(json_dump(Last.result))
  /\ fs["d/o.json"] = Last.before["d/o.json"]

\* the number of rows of a written document: its lines that open a row
DocRowCount(doc) ==
  Cardinality({i \in 1..(Len(doc) - 5) :
                 SubSeq(doc, i, i + 5) = <<NL, " ", " ", " ", " ", "{">>})

\* the number on the line of the top-level key "count"
CountKey == <<NL, " ", " ">> \o JsonString(Text("count")) \o <<":", " ">>
DocCount(doc) ==
  LET i == CHOOSE i \in 1..Len(doc) :
             i + Len(CountKey) <= Len(doc)
               /\ SubSeq(doc, i, i + Len(CountKey) - 1) = CountKey
      from == i + Len(CountKey)
  IN DecimalValue(SubSeq(doc, from, IndexFrom(doc, ",", from) - 1))

\* C3: after a successful call, count is the number of rows, in the result
\* returned and in the document written to the output path.
C3_CountIsRowCount ==
  Ran /\ Succeeded(Last) =>
    /\ Last.result.count = Len(Last.result.data)
    /\ Last.output # NoArg =>
         /\ DocRowCount(fs[Last.output].data) = Len(Last.result.data)
         /\ DocCount(fs[Last.output].data) = DocRowCount(fs[Last.output].data)

C3_Witness ==
  /\ Ran /\ Succeeded(Last)
  /\ Last.output = "d/o.json"
  /\ Len(Last.result.data) = 2
  /\ DocCount(fs["d/o.json"].data) = 2
  /\ Last.printed = <<"Processed", 2, "records">>

WasAbsent(run) == Node(run.before, run.input).kind = "absent"

\* C4: a run whose input path names nothing ends with FileNotFoundError and
\* exit code 1, whatever the suffix and the output argument, and creates
\* neither the output file nor its parent directory.
C4_MissingInput ==
  Ran /\ WasAbsent(Last) =>
    /\ Last.raised = "FileNotFoundError"
    /\ Last.code = 1
    /\ fs = Last.before

C4_Witness ==
  /\ Ran /\ WasAbsent(Last)
  /\ Last.input = "c.txt" /\ Last.output = "d/o.json"
  /\ Last.before["d"] = Absent
  /\ fs["d"] = Absent /\ fs["d/o.json"] = Absent
  /\ Last.code = 1

\* C10: the existence check comes first, the suffix check second, and both
\* come before any effect: a missing input raises FileNotFoundError whatever
\* its suffix, an existing one without the .csv suffix raises ValueError, and
\* in both cases no file was opened, no start line logged, nothing written.
C10_PreconditionOrder ==
  Ran =>
    /\ WasAbsent(Last) => Last.raised = "FileNotFoundError"
    /\ ~WasAbsent(Last) /\ Suffix(Last.input) # ".csv" => Last.raised = "ValueError"
    /\ WasAbsent(Last) \/ Suffix(Last.input) # ".csv" =>
         /\ Last.opened = <<>>
         /\ "INFO Processing" \notin Range(Last.log)
         /\ fs = Last.before

C10_Witness ==
  /\ Ran
  /\ Last.input = "b.txt" /\ Last.output = "d/o.json"
  /\ Last.before["b.txt"].kind = "file" /\ Last.before["d"] = Absent
  /\ Last.raised = "ValueError"
  /\ fs = Last.before

====
